---- MODULE Spec2Model ----
(***************************************************************************)
(* Model of the IVPN daemon's WireGuard adapter for Windows                *)
(* (vpn/wireguard/wireguard_windows.go): one adapter instance with its     *)
(* connect() thread, a control thread calling pause / resume / disconnect  *)
(* / setManualDNS / resetManualDNS on it and disconnect on a second        *)
(* adapter instance, which shares the tunnel service and the global init   *)
(* mutex, and the Windows service itself.  Every read or write of a shared *)
(* field is one step.                                                      *)
(*                                                                         *)
(* The module also models the daemon's API client (package api): a thread  *)
(* that makes API calls, SetAlternateIPs calls made by other threads, and  *)
(* the servers the attempts reach (ApiSpec); and the pinned dialer         *)
(* makeDialer applied to every handshake outcome, peer certificate chain   *)
(* and pin list (DialSpec).  Each specification leaves the variables of    *)
(* the others at their initial values.                                     *)
(***************************************************************************)
EXTENDS Integers, Sequences, FiniteSets, TLC

\* ---------------------------------------------------------------- bounds
MaxConnects == 2      \* connect() calls made on the adapter
MaxCalls == 3         \* control calls made on the adapter
MaxApiCalls == 3      \* calls made on the API object
MaxList == 2          \* addresses in a list handed to SetAlternateIPs
MaxChain == 2         \* certificates in a peer certificate chain
MaxPad == 1           \* characters of the cut set on either side of a status word

\* ------------------------------------------------------------- constants
Conn == "conn"                       \* the thread that runs connect()
Ctl == {"u1"}                        \* the thread that calls the control operations
Threads == {Conn} \cup Ctl
NoThread == "none"

pause == "pause"
resume == "resume"
Operations == {pause, resume}

NilChan == 0                         \* pauseRequireChan == nil
ChanCap == 1                         \* make(chan operation, 1)
NilIP == "nil"                       \* manualDNS == nil
DnsAddrs == {"10.0.0.1"}
HostLocalIP == "172.16.0.1"          \* connectParams.hostLocalIP
NoFile == "nofile"

VARIABLES
    pc,                    \* position of every thread
    stack,                 \* return labels of every thread, innermost first
    res,                   \* connect thread: error result of the call it last returned from
    roCh,                  \* requireOperation: the local ch
    roMsg,                 \* requireOperation: the operation to send
    toDo,                  \* connect: toDoOperation
    deferUnpause,          \* connect: the deferred "isPaused = false" is registered
    mutex,                 \* _globalInitMutex: the holder
    service,               \* the tunnel service: absent, stopped or running
    configFile,            \* the scratch configuration file: its DNS line, or NoFile
    dnsManual,             \* the dns package: the manual DNS in force, or NilIP
    manualDNS,             \* internals.manualDNS
    isRestartRequired,     \* internals.isRestartRequired
    pauseRequireChan,      \* internals.pauseRequireChan: a channel id, or NilChan
    isDisconnectRequested, \* internals.isDisconnectRequested
    isPaused,              \* internals.isPaused
    chanBuf,               \* the buffer of every channel made so far
    nextChan,              \* number of channels made so far
    emitted,               \* states written to stateChan by the current connect
    connResult,            \* how the last connect() ended
    connects,              \* connect() calls so far
    calls,                 \* control calls so far
    sameDnsCalled,         \* the last DNS call asked for the value already stored
    dnsDebt,               \* changes of manualDNS minus RECONNECTING states sent
    nPauseUninst,          \* uninstalls made by the pause branch of this connect
    nReinstalled,          \* reinstalls by resume or restart that returned nil
    quiet,                 \* no resume, disconnect or DNS change was ever called
    restartFailed,         \* the restart branch just ended with an error
    dnsFresh               \* manualDNS last changed after this connect's CONNECTED

VARIABLES
    alternateIPs,          \* API.alternateIPs
    lastGoodAlternateIP,   \* API.lastGoodAlternateIP
    APIIvpnHashes,         \* the pin list of the api host
    IPs,                   \* the argument of the last SetAlternateIPs call
    rpc,                   \* position of the thread that makes API calls
    rq,                    \* the locals of the API call in progress
    apiCalls,              \* calls made on the API object so far
    dial,                  \* one call of the pinned dialer: its inputs and results
    conv,                  \* one State.String / ParseState conversion
    sn                     \* one SessionNew call: the response and the results

wgVars == <<pc, stack, res, roCh, roMsg, toDo, deferUnpause, mutex, service,
          configFile, dnsManual, manualDNS, isRestartRequired, pauseRequireChan,
          isDisconnectRequested, isPaused, chanBuf, nextChan, emitted,
          connResult, connects, calls, sameDnsCalled, dnsDebt,
          nPauseUninst, nReinstalled, quiet, restartFailed, dnsFresh>>

apiVars == <<alternateIPs, lastGoodAlternateIP, APIIvpnHashes, IPs, rpc, rq,
             apiCalls>>
dialVars == <<dial>>
clientVars == <<apiVars, dialVars, conv, sn>>

vars == <<wgVars, apiVars, dialVars, conv, sn>>

internals == <<manualDNS, isRestartRequired, pauseRequireChan,
               isDisconnectRequested, isPaused>>
locals == <<roCh, roMsg, toDo, deferUnpause>>
world == <<mutex, service, configFile, dnsManual>>
history == <<connects, calls, sameDnsCalled, dnsDebt, nPauseUninst,
             nReinstalled, quiet, restartFailed, dnsFresh>>

\* ------------------------------------------------------------- helpers
Goto(t, l) == pc' = [pc EXCEPT ![t] = l]

Call(t, l, ret) ==
    /\ pc' = [pc EXCEPT ![t] = l]
    /\ stack' = [stack EXCEPT ![t] = <<ret>> \o @]

Return(t, r) ==
    /\ pc' = [pc EXCEPT ![t] = Head(stack[t])]
    /\ stack' = [stack EXCEPT ![t] = Tail(@)]
    /\ res' = IF t = Conn THEN r ELSE res

\* the statement of connect() (or "idle") the connect thread is executing or
\* has called a function from
ConnSite == IF stack[Conn] = <<>> THEN pc[Conn]
            ELSE stack[Conn][Len(stack[Conn])]

ConnPhase ==
    CASE ConnSite = "idle" -> "none"
      [] ConnSite \in {"c_di_ret", "c_inst_ret", "c_dq_ret", "c_mk"} -> "bringup"
      [] ConnSite \in {"L_poll", "L_select", "L_restart"} -> "connected"
      [] ConnSite = "P_unret" -> "pausing"
      [] ConnSite \in {"P_wait", "P_chk"} -> "paused"
      [] ConnSite = "P_inret" -> "reinstall"
      [] ConnSite \in {"R_unret", "R_inret"} -> "restart"
      [] OTHER -> "exiting"

\* the phases in which the tunnel is not connected and not paused either
OffPhases == {"none", "bringup", "reinstall", "restart"}

\* a message carries the operation; off records that it was requested while
\* the tunnel was in one of the OffPhases
NoMsg == [op |-> resume, off |-> FALSE]
Msg(o) == [op |-> o, off |-> ConnPhase \in OffPhases]

CanSend(ch) == Len(chanBuf[ch]) < ChanCap

CanLock_free == TRUE
CanLock == mutex = NoThread

Unlocked(t) == NoThread

\* wg.notifyConnectedStat(stateChan)
notifyConnectedStat(log) == Append(log, "CONNECTED")

\* getOSSpecificConfigParams: the "DNS = " line of the interface section
getOSSpecificConfigParams_host == HostLocalIP
getOSSpecificConfigParams == IF manualDNS # NilIP THEN manualDNS ELSE HostLocalIP

\* ------------------------------------------------- API client: values
_apiHost == "api.ivpn.net"
_updateHost == "repo.ivpn.net"

\* APIAliases, one alias per host
APIAliases == [a \in {"geo-lookup", "updateInfo_Linux"} |->
                 IF a = "geo-lookup" THEN [host |-> _apiHost]
                                     ELSE [host |-> _updateHost]]

\* the calls made on the API object: DoRequestByAlias with a known or an
\* unknown alias, DownloadServersList, and SessionNew
Aliases == DOMAIN APIAliases \cup {"no-such-alias"}
ApiCallKinds == Aliases \cup {"servers", "session-new"}

\* data: json.Marshal(request) for a call with a request object (SessionNew),
\* []byte{} for a call without
Marshal(call) == IF call = "session-new" THEN <<"{", "}">> ELSE <<>>

\* net.IP values: nil is the empty slice
NoIP == <<>>
IP7 == <<203, 0, 113, 7>>
IP8 == <<203, 0, 113, 8>>

\* the strings a list handed to SetAlternateIPs is made of
IPStrings == {"203.0.113.7", "::ffff:203.0.113.8", "bogus"}

\* net.ParseIP: nil for a string that is no address; the IPv4-mapped IPv6
\* form parses to the address the dotted form parses to
ParseIP(ipStr) ==
    CASE ipStr = "203.0.113.7" -> IP7
      [] ipStr = "203.0.113.8" -> IP8
      [] ipStr = "::ffff:203.0.113.8" -> IP8
      [] OTHER -> NoIP

\* net.IP.String
String(ip) ==
    CASE ip = IP7 -> "203.0.113.7"
      [] ip = IP8 -> "203.0.113.8"
      [] OTHER -> "<nil>"

\* net.IP.Equal
Equal(ip, x) == ip = x

\* the lists of at most n elements of S
RECURSIVE SeqsUpTo(_, _)
SeqsUpTo(S, n) ==
    IF n = 0 THEN {<<>>}
    ELSE LET shorter == SeqsUpTo(S, n - 1) IN
         shorter \cup {Append(q, x) : q \in shorter, x \in S}

IPLists == SeqsUpTo(IPStrings, MaxList)

\* the lists other threads install: of addresses only
AddressLists == SeqsUpTo(IPStrings \ {"bogus"}, MaxList)

Range(q) == {q[k] : k \in 1..Len(q)}

\* errors: nil, or a message and the target whose failure it wraps
NoError == [msg |-> "", cause |-> ""]
NoResp == ""

\* ------------------------------------------------- pinned dialer
NoErr == "nil"
NoConn == "none"
Live == "live"

\* public keys of peer certificates: three keys with an SPKI hash, a key of
\* a type MarshalPKIXPublicKey does not support, and a key whose handling
\* panics
HashedKeys == {"k1", "k2", "k3"}
PublicKeys == HashedKeys \cup {"unsupported", "panics"}

\* base64.StdEncoding.EncodeToString(sha256.Sum256(der))
certBase64hash(key) ==
    CASE key = "k1" -> "h1"
      [] key = "k2" -> "h2"
      [] key = "k3" -> "h3"

\* the pin lists: none, one hash, two hashes
PinLists == {<<>>, <<"h1">>, <<"h3", "h1">>}
UpdateIvpnHashes == <<"h1">>

\* what a server does with a connection attempt: the TLS handshake succeeds,
\* fails or panics, the chain it presents, and whether the HTTP exchange
\* that follows completes
Handshakes == {"ok", "error", "panic"}
Chains == SeqsUpTo(PublicKeys, MaxChain)

findPinnedKey_any(certHashes, certBase64hash256) == TRUE
findPinnedKey(certHashes, certBase64hash256) ==
    \E k \in 1..Len(certHashes) : certHashes[k] = certBase64hash256

\* the loop over connstate.PeerCertificates and the two returns after it. A
\* panic in the loop is recovered by the deferred function, which sets no
\* result: the dialer returns the zero values, and the connection stays open
RECURSIVE checkCerts(_, _, _)
checkCerts(PeerCertificates, certHashes, lastErr) ==
    IF PeerCertificates = <<>>
       THEN [conn |-> NoConn,
             err |-> IF lastErr # NoErr THEN "pin not found: marshal error"
                                        ELSE "pin not found",
             open |-> TRUE, panicked |-> FALSE]
       ELSE LET key == Head(PeerCertificates) IN
            CASE key = "panics" ->
                   [conn |-> NoConn, err |-> NoErr, open |-> TRUE,
                    panicked |-> TRUE]
              [] key = "unsupported" ->
                   checkCerts(Tail(PeerCertificates), certHashes, "marshal")
              [] OTHER ->
                   IF findPinnedKey(certHashes, certBase64hash(key))
                      THEN [conn |-> Live, err |-> NoErr, open |-> TRUE,
                            panicked |-> FALSE]
                      ELSE checkCerts(Tail(PeerCertificates), certHashes,
                                      lastErr)

\* the function makeDialer returns, applied to a server: tls.Dial, then the
\* certificate check. A panic in tls.Dial is recovered the same way
makeDialer(certHashes, srv) ==
    CASE srv.handshake = "panic" ->
           [conn |-> NoConn, err |-> NoErr, open |-> FALSE, panicked |-> TRUE]
      [] srv.handshake = "error" ->
           [conn |-> NoConn, err |-> "dial", open |-> FALSE,
            panicked |-> FALSE]
      [] OTHER -> checkCerts(srv.PeerCertificates, certHashes, NoErr)

NoRet == [conn |-> NoConn, err |-> NoErr, open |-> FALSE, panicked |-> FALSE]
NoSrv == [handshake |-> "error", PeerCertificates |-> <<>>]

\* ------------------------------------------------- API client: idle
NoRq == [call |-> "", lastIP |-> NoIP, ips |-> <<>>, i |-> 0, tried |-> <<>>,
         firstErr |-> "", resp |-> NoResp, err |-> NoError,
         allMiss |-> FALSE, wrote |-> FALSE, buf |-> <<>>]

\* CreateAPI(): &API{}
ApiIdle ==
    /\ alternateIPs = <<>>
    /\ lastGoodAlternateIP = NoIP
    /\ IPs = <<>>
    /\ rpc = "idle"
    /\ rq = NoRq
    /\ apiCalls = 0

DialIdle ==
    dial = [state |-> "idle", certHashes |-> <<>>, srv |-> NoSrv, ret |-> NoRet]

\* ------------------------------------------------- state model: values
\* the table State.String() indexes
StateNames == <<"DISCONNECTED", "CONNECTING", "WAIT", "AUTH", "GETCONFIG",
                "ASSIGNIP", "ADDROUTES", "CONNECTED", "RECONNECTING",
                "TCP_CONNECT", "EXITING">>

\* the State constants: DISCONNECTED is 0, EXITING is 10
State(name) == (CHOOSE k \in 1..Len(StateNames) : StateNames[k] = name) - 1

\* a string is a list of pieces: a piece is one character of the cut set of
\* ParseState or a word without such characters
CutSet == {" ", "\t", ";", ",", "."}

\* func (s State) String() string
StateString(s) ==
    IF s < State("DISCONNECTED") \/ s > State("EXITING")
       THEN <<"<Unknown>">>
       ELSE <<StateNames[s + 1]>>

\* strings.Trim(s, cutset)
Trim(s, cutset) ==
    LET RECURSIVE TrimLeft(_)
        TrimLeft(str) ==
            IF str # <<>> /\ Head(str) \in cutset THEN TrimLeft(Tail(str))
                                                  ELSE str
        RECURSIVE TrimRight(_)
        TrimRight(str) ==
            IF str # <<>> /\ str[Len(str)] \in cutset
               THEN TrimRight(SubSeq(str, 1, Len(str) - 1))
               ELSE str
    IN  TrimRight(TrimLeft(s))

\* func ParseState(stateStr string) (State, error)
ParseState(stateStr) ==
    LET str == Trim(stateStr, CutSet)
        ok(name) == [state |-> State(name), err |-> NoErr]
    IN  CASE str = <<"CONNECTING">> -> ok("CONNECTING")
          [] str = <<"WAIT">> -> ok("WAIT")
          [] str = <<"AUTH">> -> ok("AUTH")
          [] str = <<"GET_CONFIG">> -> ok("GETCONFIG")
          [] str = <<"ASSIGN_IP">> -> ok("ASSIGNIP")
          [] str = <<"ADD_ROUTES">> -> ok("ADDROUTES")
          [] str = <<"CONNECTED">> -> ok("CONNECTED")
          [] str = <<"RECONNECTING">> -> ok("RECONNECTING")
          [] str = <<"TCP_CONNECT">> -> ok("TCP_CONNECT")
          [] str = <<"EXITING">> -> ok("EXITING")
          [] OTHER -> [state |-> State("DISCONNECTED"),
                       err |-> "unexpected state"]

\* the runs of at most MaxPad characters of the cut set around a word
Pads == SeqsUpTo(CutSet, MaxPad)

\* no State given (-2), nothing parsed yet
NoParse == [state |-> -2, err |-> NoErr]

ConvIdle ==
    conv = [state |-> "idle", s |-> -2, stateStr |-> <<>>, ret |-> NoParse]

\* ------------------------------------------------- SessionNew: values
\* types.CodeSuccess, types.CodeSessionsLimitReached
CodeSuccess == 200
CodeSessionsLimitReached == 602

\* errors of SessionNew: nil, an error made by fmt.Errorf, an API error with
\* the status and message of an envelope
NoAPIError == [msg |-> "", Status |-> 0, Message |-> ""]
Errorf(msg) == [msg |-> msg, Status |-> 0, Message |-> ""]
CreateAPIError(status, message) ==
    [msg |-> "API error", Status |-> status, Message |-> message]

\* a response body: whether json.Unmarshal decodes it into the envelope
\* (types.APIErrorResponse), the status and message it then yields, and
\* whether it decodes into types.SessionNewResponse and into
\* types.SessionNewErrorLimitResponse. A body that is no envelope decodes
\* into neither of the typed responses
NoData == [envelope |-> FALSE, Status |-> 0, Message |-> "",
           success |-> FALSE, limit |-> FALSE]

\* what a.requestRaw returns: an error, or the body read
RawResults ==
    {[err |-> Errorf("API request failed"), data |-> NoData]} \cup
    {[err |-> NoAPIError, data |-> d] :
        d \in {NoData} \cup
              [envelope : {TRUE},
               Status : {CodeSuccess, CodeSessionsLimitReached, 401, 702, 0},
               Message : {"", "Too many sessions"},
               success : BOOLEAN, limit : BOOLEAN]}

\* a nil pointer
Nil == "nil"

\* the results before anything was decoded: no typed response, no envelope
\* (status -1), rawResponse ""
NoSessionRet == [successResp |-> Nil, errorLimitResp |-> Nil,
                 apiErr |-> [Status |-> -1, Message |-> ""],
                 rawResponse |-> <<>>, err |-> NoAPIError]

SessionIdle ==
    sn = [state |-> "idle", raw |-> [err |-> NoAPIError, data |-> NoData],
          ret |-> NoSessionRet]

\* ------------------------------------------------------------------ Init
\* the adapter after construction
AdapterInit ==
    /\ pc = [t \in Threads |-> "idle"]
    /\ stack = [t \in Threads |-> <<>>]
    /\ res = "ok"
    /\ roCh = [t \in Threads |-> NilChan]
    /\ roMsg = [t \in Threads |-> NoMsg]
    /\ toDo = resume
    /\ deferUnpause = FALSE
    /\ mutex = NoThread
    /\ service = "absent"
    /\ configFile = NoFile
    /\ dnsManual = NilIP
    /\ manualDNS = NilIP
    /\ isRestartRequired = FALSE
    /\ pauseRequireChan = NilChan
    /\ isDisconnectRequested = FALSE
    /\ isPaused = FALSE
    /\ chanBuf = [c \in 1..MaxConnects |-> <<>>]
    /\ nextChan = 0
    /\ emitted = <<>>
    /\ connResult = "none"
    /\ connects = 0
    /\ calls = 0
    /\ sameDnsCalled = FALSE
    /\ dnsDebt = 0
    /\ nPauseUninst = 0
    /\ nReinstalled = 0
    /\ quiet = TRUE
    /\ restartFailed = FALSE
    /\ dnsFresh = FALSE

Init ==
    /\ AdapterInit
    /\ ApiIdle
    /\ APIIvpnHashes = <<"h1">>
    /\ DialIdle
    /\ ConvIdle
    /\ SessionIdle

\* ------------------------------------------------- uninstallService
\* _globalInitMutex.Lock()
ULock(t) ==
    /\ pc[t] = "U_lock"
    /\ CanLock
    /\ mutex' = t
    /\ Goto(t, "U_body")
    /\ UNCHANGED <<stack, res, locals, service, configFile, dnsManual,
                   internals, chanBuf, nextChan, emitted, connResult, history>>
    /\ UNCHANGED clientVars

\* the body of uninstallService and its deferred Unlock: nothing to do when
\* the service is absent; otherwise the uninstall request either removes the
\* service or fails (service manager error, uninstaller error, timeout), in
\* which case the service is left as it was or stopped but still installed
UBody(t) ==
    /\ pc[t] = "U_body"
    /\ \/ /\ service' = "absent"
          /\ Return(t, "ok")
       \/ /\ service' \in {service} \cup (IF service = "running" THEN {"stopped"} ELSE {})
          /\ Return(t, "err")
    /\ mutex' = Unlocked(t)
    /\ UNCHANGED <<locals, configFile, dnsManual, internals, chanBuf,
                   nextChan, emitted, connResult, history>>
    /\ UNCHANGED clientVars

\* ------------------------------------------------- installService
\* _globalInitMutex.Lock()
ILock(t) ==
    /\ pc[t] = "I_lock"
    /\ CanLock
    /\ mutex' = t
    /\ Goto(t, "I_write")
    /\ UNCHANGED <<stack, res, locals, service, configFile, dnsManual,
                   internals, chanBuf, nextChan, emitted, connResult, history>>
    /\ UNCHANGED clientVars

\* generateAndSaveConfigFile(wg.configFilePath)
IWrite(t) ==
    /\ pc[t] = "I_write"
    /\ \/ /\ configFile' = getOSSpecificConfigParams
          /\ Goto(t, "I_exec")
          /\ res' = res
       \/ /\ configFile' = configFile
          /\ Goto(t, "I_defer")
          /\ res' = "err"
    /\ UNCHANGED <<stack, locals, mutex, service, dnsManual, internals,
                   chanBuf, nextChan, emitted, connResult, history>>
    /\ UNCHANGED clientVars

\* the CONNECTED notification is the last statement of installService: it is
\* sent only when the service was seen running
Notified_early(o, log) == IF o # "notinstalled" THEN notifyConnectedStat(log) ELSE log
Notified_never(o, log) == log
Notified(o, log) == IF o = "started" THEN notifyConnectedStat(log) ELSE log

\* the installer, the wait for the service to be installed and the wait for
\* it to be running: the installer fails or the install times out
\* (notinstalled), the service is installed but fails to start, stops or the
\* start times out (notstarted), or it is running (started); then the dns
\* package is told the DNS in force and CONNECTED is notified
IExec(t) ==
    /\ pc[t] = "I_exec"
    /\ \E o \in {"notinstalled", "notstarted", "started"} :
         /\ service' = CASE o = "notinstalled" -> service
                         [] o = "notstarted" -> "stopped"
                         [] o = "started" -> "running"
         /\ res' = IF o = "started" THEN "ok" ELSE "err"
         /\ dnsManual' = IF o = "started" THEN manualDNS ELSE dnsManual
         /\ emitted' = Notified(o, emitted)
    /\ Goto(t, "I_defer")
    /\ UNCHANGED <<stack, locals, mutex, configFile, internals, chanBuf,
                   nextChan, connResult, history>>
    /\ UNCHANGED clientVars

\* the deferred calls of installService, last registered first:
\* os.Remove(configFilePath), Unlock, and on failure disconnectInternal()
IDefer(t) ==
    /\ pc[t] = "I_defer"
    /\ configFile' = NoFile
    /\ mutex' = Unlocked(t)
    /\ IF res = "err"
          THEN Call(t, "DI_read", "I_cl_ret") /\ res' = res
          ELSE Return(t, "ok")
    /\ UNCHANGED <<locals, service, dnsManual, internals, chanBuf, nextChan,
                   emitted, connResult, history>>
    /\ UNCHANGED clientVars

\* installService returns its own error after the cleanup
ICleanupRet(t) ==
    /\ pc[t] = "I_cl_ret"
    /\ Return(t, "err")
    /\ UNCHANGED <<locals, world, internals, chanBuf, nextChan, emitted,
                   connResult, history>>
    /\ UNCHANGED clientVars

\* ------------------------------------------------- disconnectInternal
\* requireOperation(resume): ch := wg.internals.pauseRequireChan
DIRead(t) ==
    /\ pc[t] = "DI_read"
    /\ IF pauseRequireChan = NilChan
          THEN Goto(t, "U_lock") /\ UNCHANGED <<roCh, roMsg>>
          ELSE /\ Goto(t, "DI_send")
               /\ roCh' = [roCh EXCEPT ![t] = pauseRequireChan]
               /\ roMsg' = [roMsg EXCEPT ![t] = Msg(resume)]
    /\ UNCHANGED <<stack, res, toDo, deferUnpause, world, internals, chanBuf,
                   nextChan, emitted, connResult, history>>
    /\ UNCHANGED clientVars

\* requireOperation(resume): ch <- o, then uninstallService()
DISend(t) ==
    /\ pc[t] = "DI_send"
    /\ CanSend(roCh[t])
    /\ chanBuf' = [chanBuf EXCEPT ![roCh[t]] = Append(@, roMsg[t])]
    /\ roCh' = [roCh EXCEPT ![t] = NilChan]
    /\ roMsg' = [roMsg EXCEPT ![t] = NoMsg]
    /\ Goto(t, "U_lock")
    /\ UNCHANGED <<stack, res, toDo, deferUnpause, world, internals, nextChan, emitted,
                   connResult, history>>
    /\ UNCHANGED clientVars

\* ------------------------------------------------- control operations
\* pause() / resume(): requireOperation(o) up to the send
RequireCall(t, o) ==
    /\ pc[t] = "idle"
    /\ calls < MaxCalls
    /\ calls' = calls + 1
    /\ quiet' = (quiet /\ o = pause)
    /\ IF pauseRequireChan = NilChan
          THEN UNCHANGED <<pc, roCh, roMsg>>
          ELSE /\ Goto(t, "RO_send")
               /\ roCh' = [roCh EXCEPT ![t] = pauseRequireChan]
               /\ roMsg' = [roMsg EXCEPT ![t] = Msg(o)]
    /\ UNCHANGED <<stack, res, toDo, deferUnpause, world, internals, chanBuf,
                   nextChan, emitted, connResult, connects, sameDnsCalled,
                   dnsDebt,
                   nPauseUninst, nReinstalled, restartFailed,
                   dnsFresh>>
    /\ UNCHANGED clientVars

PauseCall(t) == RequireCall(t, pause)

ResumeCall(t) == RequireCall(t, resume)

\* requireOperation: ch <- o
ROSend(t) ==
    /\ pc[t] = "RO_send"
    /\ CanSend(roCh[t])
    /\ chanBuf' = [chanBuf EXCEPT ![roCh[t]] = Append(@, roMsg[t])]
    /\ roCh' = [roCh EXCEPT ![t] = NilChan]
    /\ roMsg' = [roMsg EXCEPT ![t] = NoMsg]
    /\ Goto(t, "idle")
    /\ UNCHANGED <<stack, res, toDo, deferUnpause, world, internals, nextChan, emitted,
                   connResult, history>>
    /\ UNCHANGED clientVars

\* disconnect(): isDisconnectRequested = true, then disconnectInternal()
DisconnectCall(t) ==
    /\ pc[t] = "idle"
    /\ calls < MaxCalls
    /\ calls' = calls + 1
    /\ quiet' = FALSE
    /\ isDisconnectRequested' = TRUE
    /\ Call(t, "DI_read", "idle")
    /\ UNCHANGED <<res, locals, world, manualDNS, isRestartRequired,
                   pauseRequireChan, isPaused, chanBuf, nextChan, emitted,
                   connResult, connects, sameDnsCalled, dnsDebt, nPauseUninst,
                   nReinstalled, restartFailed,
                   dnsFresh>>
    /\ UNCHANGED clientVars

\* addr.Equal(wg.internals.manualDNS)
SameDNS_never(addr) == FALSE
SameDNS(addr) == addr = manualDNS

\* setManualDNS / resetManualDNS up to the store of the new value
ChangeDNS(t, addr) ==
    /\ pc[t] = "idle"
    /\ calls < MaxCalls
    /\ calls' = calls + 1
    /\ sameDnsCalled' = (addr = manualDNS)
    /\ dnsDebt' = IF addr = manualDNS THEN dnsDebt ELSE dnsDebt + 1
    /\ dnsFresh' = IF addr = manualDNS THEN dnsFresh
                   ELSE /\ pc[Conn] # "idle"
                        /\ \E i \in 1..Len(emitted) : emitted[i] = "CONNECTED"
    /\ IF SameDNS(addr)
          THEN UNCHANGED <<pc, manualDNS, quiet>>
          ELSE /\ manualDNS' = addr
               /\ quiet' = FALSE
               /\ Goto(t, "D_chk")
    /\ UNCHANGED <<stack, res, locals, world, isRestartRequired,
                   pauseRequireChan, isDisconnectRequested, isPaused, chanBuf,
                   nextChan, emitted, connResult, connects,
                   nPauseUninst, nReinstalled, restartFailed>>
    /\ UNCHANGED clientVars

SetManualDNSCall(t, addr) == ChangeDNS(t, addr)

ResetManualDNSCall(t) == ChangeDNS(t, NilIP)

isServiceRunning_always(ok) == TRUE

\* isServiceRunning(): an error of the service manager reads as not running
isServiceRunning(ok) == ok /\ service = "running"

\* setManualDNS: if running, err := wg.isServiceRunning(); err != nil || !running
DChk(t) ==
    /\ pc[t] = "D_chk"
    /\ \E ok \in BOOLEAN :
         IF isServiceRunning(ok) THEN Goto(t, "D_set") ELSE Goto(t, "idle")
    /\ UNCHANGED <<stack, res, locals, world, internals, chanBuf, nextChan,
                   emitted, connResult, history>>
    /\ UNCHANGED clientVars

\* setManualDNS: wg.internals.isRestartRequired = true
DSet(t) ==
    /\ pc[t] = "D_set"
    /\ isRestartRequired' = TRUE
    /\ Goto(t, "idle")
    /\ UNCHANGED <<stack, res, locals, world, manualDNS, pauseRequireChan,
                   isDisconnectRequested, isPaused, chanBuf, nextChan, emitted,
                   connResult, history>>
    /\ UNCHANGED clientVars

\* ------------------------------------------------- connect
Leave_nil(r) ==
    /\ Goto(Conn, "c_exit")
    /\ res' = "ok"

\* leave connect() with error result r: the deferred calls run in CExit
Leave(r) ==
    /\ Goto(Conn, "c_exit")
    /\ res' = r

\* if wg.internals.isDisconnectRequested { return fmt.Errorf(...) }
Refuses_never == FALSE
Refuses == isDisconnectRequested

\* connect(): refuse when a disconnect was requested on this object,
\* otherwise register the deferred cleanup and call disconnectInternal()
ConnectCall ==
    /\ pc[Conn] = "idle"
    /\ connects < MaxConnects
    /\ connects' = connects + 1
    /\ IF Refuses
          THEN /\ connResult' = "refused"
               /\ UNCHANGED <<pc, stack, emitted, nPauseUninst, nReinstalled,
                              dnsFresh>>
          ELSE /\ connResult' = "running"
               /\ dnsFresh' = FALSE
               /\ emitted' = <<>>
               /\ nPauseUninst' = 0
               /\ nReinstalled' = 0
               /\ Call(Conn, "DI_read", "c_di_ret")
    /\ UNCHANGED <<res, locals, world, internals, chanBuf, nextChan, calls,
                   sameDnsCalled, dnsDebt, quiet, restartFailed>>
    /\ UNCHANGED clientVars

\* after disconnectInternal(): mgr.Connect(), then installService(stateChan)
CAfterDisconnect ==
    /\ pc[Conn] = "c_di_ret"
    /\ IF res = "err"
          THEN Leave("err") /\ stack' = stack
          ELSE \/ Leave("err") /\ stack' = stack     \* mgr.Connect() failed
               \/ Call(Conn, "I_lock", "c_inst_ret") /\ res' = "ok"
    /\ UNCHANGED <<locals, world, internals, chanBuf, nextChan, emitted,
                   connResult, history>>
    /\ UNCHANGED clientVars

CAfterInstall_nocheck ==
    /\ pc[Conn] = "c_inst_ret"
    /\ IF res = "err"
          THEN Leave("err") /\ stack' = stack
          ELSE Goto(Conn, "c_mk") /\ UNCHANGED <<stack, res>>
    /\ UNCHANGED <<locals, world, internals, chanBuf, nextChan, emitted,
                   connResult, history>>
    /\ UNCHANGED clientVars

\* after installService: return its error, or look at isDisconnectRequested
CAfterInstall ==
    /\ pc[Conn] = "c_inst_ret"
    /\ IF res = "err"
          THEN Leave("err") /\ stack' = stack
          ELSE IF isDisconnectRequested
                  THEN Call(Conn, "U_lock", "c_dq_ret") /\ res' = res
                  ELSE Goto(Conn, "c_mk") /\ UNCHANGED <<stack, res>>
    /\ UNCHANGED <<locals, world, internals, chanBuf, nextChan, emitted,
                   connResult, history>>
    /\ UNCHANGED clientVars

\* return wg.uninstallService()
CAfterDiscUninstall ==
    /\ pc[Conn] = "c_dq_ret"
    /\ Leave(res)
    /\ UNCHANGED <<stack, locals, world, internals, chanBuf, nextChan,
                   emitted, connResult, history>>
    /\ UNCHANGED clientVars

\* wg.internals.pauseRequireChan = make(chan operation, 1)
CMakeChan ==
    /\ pc[Conn] = "c_mk"
    /\ nextChan' = nextChan + 1
    /\ pauseRequireChan' = nextChan + 1
    /\ Goto(Conn, "L_poll")
    /\ UNCHANGED <<stack, res, locals, world, manualDNS, isRestartRequired,
                   isDisconnectRequested, isPaused, chanBuf, emitted,
                   connResult, history>>
    /\ UNCHANGED clientVars

\* the head of the loop: getServiceStatus; break when the service is absent
\* or stopped
LPoll ==
    /\ pc[Conn] = "L_poll"
    /\ IF service \in {"absent", "stopped"}
          THEN Leave("ok")
          ELSE Goto(Conn, "L_select") /\ res' = res
    /\ restartFailed' = FALSE
    /\ UNCHANGED <<stack, locals, world, internals, chanBuf, nextChan,
                   emitted, connResult, connects, calls, sameDnsCalled,
                   dnsDebt, nPauseUninst, nReinstalled, quiet,
                   dnsFresh>>
    /\ UNCHANGED clientVars

\* select: a non-blocking receive from pauseRequireChan; on pause mark the
\* connection paused, register the deferred unpause and uninstall the service
LSelect ==
    /\ pc[Conn] = "L_select"
    /\ IF chanBuf[pauseRequireChan] = <<>>
          THEN /\ Goto(Conn, "L_restart")
               /\ UNCHANGED <<stack, toDo, deferUnpause, isPaused, chanBuf,
                              nPauseUninst>>
          ELSE LET m == Head(chanBuf[pauseRequireChan]) IN
               /\ chanBuf' = [chanBuf EXCEPT ![pauseRequireChan] = Tail(@)]
               /\ toDo' = toDo
               /\ IF m.op = pause
                     THEN /\ isPaused' = TRUE
                          /\ deferUnpause' = TRUE
                          /\ nPauseUninst' = nPauseUninst + 1
                          /\ Call(Conn, "U_lock", "P_unret")
                     ELSE /\ Goto(Conn, "L_restart")
                          /\ UNCHANGED <<stack, deferUnpause, isPaused,
                                         nPauseUninst>>
    /\ UNCHANGED <<res, roCh, roMsg, world, manualDNS, isRestartRequired,
                   pauseRequireChan, isDisconnectRequested, nextChan, emitted,
                   connResult, connects, calls, sameDnsCalled, dnsDebt,
                   nReinstalled, quiet, restartFailed,
                   dnsFresh>>
    /\ UNCHANGED clientVars

\* after the uninstall of a pause: return its error, or wait for a message
PAfterUninstall ==
    /\ pc[Conn] = "P_unret"
    /\ IF res = "err"
          THEN Leave("err")
          ELSE Goto(Conn, "P_wait") /\ res' = "ok"
    /\ UNCHANGED <<stack, locals, world, internals, chanBuf, nextChan,
                   emitted, connResult, history>>
    /\ UNCHANGED clientVars

\* what a message received while paused does: a pause is ignored, anything
\* else ends the wait
PausedReceive_wake(o) == [leave |-> TRUE, toDo |-> resume]
PausedReceive(o) == [leave |-> o # pause, toDo |-> o]

\* toDoOperation = <-wg.internals.pauseRequireChan, in the inner loop
PWait ==
    /\ pc[Conn] = "P_wait"
    /\ chanBuf[pauseRequireChan] # <<>>
    /\ LET r == PausedReceive(Head(chanBuf[pauseRequireChan]).op) IN
         /\ toDo' = r.toDo
         /\ IF r.leave THEN Goto(Conn, "P_chk") ELSE pc' = pc
    /\ chanBuf' = [chanBuf EXCEPT ![pauseRequireChan] = Tail(@)]
    /\ UNCHANGED <<stack, res, roCh, roMsg, deferUnpause, world, internals,
                   nextChan, emitted, connResult, history>>
    /\ UNCHANGED clientVars

\* if isDisconnectRequested: break (out of the select); if toDoOperation is
\* resume: installService
PChk ==
    /\ pc[Conn] = "P_chk"
    /\ IF isDisconnectRequested
          THEN Goto(Conn, "L_restart") /\ stack' = stack
          ELSE IF toDo = resume
                  THEN Call(Conn, "I_lock", "P_inret")
                  ELSE Goto(Conn, "L_restart") /\ stack' = stack
    /\ toDo' = resume
    /\ UNCHANGED <<res, roCh, roMsg, deferUnpause, world, internals, chanBuf,
                   nextChan, emitted, connResult, history>>
    /\ UNCHANGED clientVars

\* after the install of a resume: return its error, or isPaused = false and
\* break (out of the select)
PAfterInstall ==
    /\ pc[Conn] = "P_inret"
    /\ IF res = "err"
          THEN Leave("err") /\ UNCHANGED <<isPaused, nReinstalled>>
          ELSE /\ Goto(Conn, "L_restart")
               /\ isPaused' = FALSE
               /\ nReinstalled' = nReinstalled + 1
               /\ res' = res
    /\ UNCHANGED <<stack, locals, world, manualDNS, isRestartRequired,
                   pauseRequireChan, isDisconnectRequested, chanBuf, nextChan,
                   emitted, connResult, connects, calls, sameDnsCalled,
                   dnsDebt, nPauseUninst, quiet, restartFailed,
                   dnsFresh>>
    /\ UNCHANGED clientVars

\* if isRestartRequired: clear it, send RECONNECTING and uninstall; then the
\* loop's post statement (sleep) and back to the head
LRestart ==
    /\ pc[Conn] = "L_restart"
    /\ IF isRestartRequired
          THEN /\ isRestartRequired' = FALSE
               /\ emitted' = Append(emitted, "RECONNECTING")
               /\ dnsDebt' = dnsDebt - 1
               /\ Call(Conn, "U_lock", "R_unret")
          ELSE /\ Goto(Conn, "L_poll")
               /\ UNCHANGED <<stack, isRestartRequired, emitted, dnsDebt>>
    /\ UNCHANGED <<res, locals, world, manualDNS, pauseRequireChan,
                   isDisconnectRequested, isPaused, chanBuf, nextChan,
                   connResult, connects, calls, sameDnsCalled,
                   nPauseUninst, nReinstalled, quiet, restartFailed,
                   dnsFresh>>
    /\ UNCHANGED clientVars

\* after the uninstall of a restart: on error log it, else installService
RAfterUninstall ==
    /\ pc[Conn] = "R_unret"
    /\ IF res = "err"
          THEN Goto(Conn, "L_poll") /\ stack' = stack
          ELSE Call(Conn, "I_lock", "R_inret")
    /\ res' = "ok"
    /\ restartFailed' = (res = "err")
    /\ UNCHANGED <<locals, world, internals, chanBuf, nextChan, emitted,
                   connResult, connects, calls, sameDnsCalled, dnsDebt,
                   nPauseUninst, nReinstalled, quiet,
                   dnsFresh>>
    /\ UNCHANGED clientVars

\* after the install of a restart: the error is only logged
RAfterInstall ==
    /\ pc[Conn] = "R_inret"
    /\ Goto(Conn, "L_poll")
    /\ nReinstalled' = IF res = "ok" THEN nReinstalled + 1 ELSE nReinstalled
    /\ restartFailed' = (res = "err")
    /\ res' = "ok"
    /\ UNCHANGED <<stack, locals, world, internals, chanBuf, nextChan,
                   emitted, connResult, connects, calls, sameDnsCalled,
                   dnsDebt, nPauseUninst, quiet,
                   dnsFresh>>
    /\ UNCHANGED clientVars

\* the deferred calls of connect(), last registered first: isPaused = false
\* (when a pause registered it), pauseRequireChan = nil, dns.DeleteManual
CExit ==
    /\ pc[Conn] = "c_exit"
    /\ isPaused' = IF deferUnpause THEN FALSE ELSE isPaused
    /\ deferUnpause' = FALSE
    /\ pauseRequireChan' = NilChan
    /\ dnsManual' = NilIP
    /\ connResult' = IF res = "ok" THEN "nil" ELSE "err"
    /\ Goto(Conn, "idle")
    /\ res' = "ok"
    /\ UNCHANGED <<stack, roCh, roMsg, toDo, mutex, service, configFile,
                   manualDNS, isRestartRequired, isDisconnectRequested,
                   chanBuf, nextChan, emitted, history>>
    /\ UNCHANGED clientVars

\* ------------------------------------------------- env
\* the tunnel service stops on its own
ServiceStops ==
    /\ service = "running"
    /\ service' = "stopped"
    /\ UNCHANGED <<pc, stack, res, locals, mutex, configFile, dnsManual,
                   internals, chanBuf, nextChan, emitted, connResult, history>>
    /\ UNCHANGED clientVars

\* disconnect() on another adapter instance: its own pauseRequireChan is nil,
\* so requireOperation sends nothing and uninstallService is called
OtherDisconnect(t) ==
    /\ pc[t] = "idle"
    /\ calls < MaxCalls
    /\ calls' = calls + 1
    /\ Call(t, "U_lock", "idle")
    /\ UNCHANGED <<res, locals, world, internals, chanBuf, nextChan, emitted,
                   connResult, connects, sameDnsCalled, dnsDebt,
                   nPauseUninst, nReinstalled, quiet, restartFailed,
                   dnsFresh>>
    /\ UNCHANGED clientVars

Next ==
    \/ \E t \in Threads : ULock(t)
    \/ \E t \in Threads : UBody(t)
    \/ \E t \in Threads : DIRead(t)
    \/ \E t \in Threads : DISend(t)
    \/ \E t \in Ctl : PauseCall(t)
    \/ \E t \in Ctl : ResumeCall(t)
    \/ \E t \in Ctl : ROSend(t)
    \/ \E t \in Ctl : DisconnectCall(t)
    \/ \E t \in Ctl : \E addr \in DnsAddrs : SetManualDNSCall(t, addr)
    \/ \E t \in Ctl : ResetManualDNSCall(t)
    \/ \E t \in Ctl : DChk(t)
    \/ \E t \in Ctl : DSet(t)
    \/ \E t \in Threads : ILock(t)
    \/ \E t \in Threads : IWrite(t)
    \/ \E t \in Threads : IExec(t)
    \/ \E t \in Threads : IDefer(t)
    \/ \E t \in Threads : ICleanupRet(t)
    \/ ConnectCall
    \/ CAfterDisconnect
    \/ CAfterInstall
    \/ CAfterDiscUninstall
    \/ CMakeChan
    \/ LPoll
    \/ LSelect
    \/ PAfterUninstall
    \/ PWait
    \/ PChk
    \/ PAfterInstall
    \/ LRestart
    \/ RAfterUninstall
    \/ RAfterInstall
    \/ CExit
    \/ ServiceStops
    \/ \E t \in Ctl : OtherDisconnect(t)

Spec == Init /\ [][Next]_vars

\* the steps a thread takes on its own once a call was made; the calls
\* themselves and the stop of the service are up to the environment
ConnInternal ==
    \/ ULock(Conn) \/ UBody(Conn) \/ DIRead(Conn) \/ DISend(Conn)
    \/ ILock(Conn) \/ IWrite(Conn) \/ IExec(Conn) \/ IDefer(Conn)
    \/ ICleanupRet(Conn)
    \/ CAfterDisconnect \/ CAfterInstall \/ CAfterDiscUninstall \/ CMakeChan
    \/ LPoll \/ LSelect \/ PAfterUninstall \/ PWait \/ PChk \/ PAfterInstall
    \/ LRestart \/ RAfterUninstall \/ RAfterInstall \/ CExit

CtlInternal(t) ==
    \/ ULock(t) \/ UBody(t) \/ DIRead(t) \/ DISend(t) \/ ROSend(t)
    \/ DChk(t) \/ DSet(t)

\* every thread that can take a step eventually takes one
FairSpec ==
    /\ Spec
    /\ WF_vars(ConnInternal)
    /\ \A t \in Ctl : WF_vars(CtlInternal(t))

\* ================================================================ dialer
\* a call of the function makeDialer returns, for every pin list, handshake
\* outcome and peer certificate chain
DialInit ==
    /\ AdapterInit
    /\ ApiIdle
    /\ APIIvpnHashes = <<"h1">>
    /\ ConvIdle
    /\ SessionIdle
    /\ \E h \in PinLists, hs \in Handshakes, chain \in Chains :
         dial = [state |-> "called", certHashes |-> h,
                 srv |-> [handshake |-> hs, PeerCertificates |-> chain],
                 ret |-> NoRet]

\* func(network, addr string) (net.Conn, error)
DialTLS ==
    /\ dial.state = "called"
    /\ dial' = [dial EXCEPT !.state = "returned",
                            !.ret = makeDialer(dial.certHashes, dial.srv)]
    /\ UNCHANGED <<wgVars, apiVars, conv, sn>>

DialNext == DialTLS

DialSpec == DialInit /\ [][DialNext]_vars

\* ================================================================ API client
ApiPinLists == {<<>>, <<"h1">>}

ApiInit ==
    /\ AdapterInit
    /\ ApiIdle
    /\ APIIvpnHashes \in ApiPinLists
    /\ DialIdle
    /\ ConvIdle
    /\ SessionIdle

\* the servers an attempt can reach: the handshake fails or panics, or it
\* succeeds with a chain of one certificate and the exchange then completes
\* or fails
ApiServers ==
    {[handshake |-> hs, PeerCertificates |-> <<>>, http |-> FALSE] :
        hs \in Handshakes \ {"ok"}}
    \cup {[handshake |-> "ok", PeerCertificates |-> chain, http |-> h] :
             chain \in {<<"k1">>, <<"k2">>}, h \in BOOLEAN}

\* the server presents a chain none of whose SPKI hashes is in the pin list
PinMiss(certHashes, srv) ==
    /\ srv.handshake = "ok"
    /\ \A key \in Range(srv.PeerCertificates) :
         certBase64hash(key) \notin Range(certHashes)

\* the transport of doRequestAPIHost: the pinned dialer, or CA validation
\* alone when there are no pins
apiTransCfg == [DialTLS |-> Len(APIIvpnHashes) # 0, certHashes |-> APIIvpnHashes]

\* the transport of doRequestUpdateHost
updateTransCfg == [DialTLS |-> TRUE, certHashes |-> UpdateIvpnHashes]

\* client.Do(req) returns a response: the transport got a connection (from
\* DialTLS: a connection and a nil error) and the exchange completed
clientDo(transCfg, srv) ==
    LET c == IF transCfg.DialTLS
                THEN makeDialer(transCfg.certHashes, srv)
                ELSE [conn |-> IF srv.handshake = "ok" THEN Live ELSE NoConn,
                      err |-> IF srv.handshake = "ok" THEN NoErr ELSE "dial"]
    IN  c.conn = Live /\ c.err = NoErr /\ srv.http

\* a panic outside the dialer is not recovered: it ends the process
Survives(transCfg, srv) == transCfg.DialTLS \/ srv.handshake # "panic"

\* doRequest: the function the host selects
doRequest(host) ==
    IF host = "" \/ host = _apiHost THEN "api"
    ELSE IF host = _updateHost THEN "update"
    ELSE "unknown"

\* getAlternateIPs(), under a.mutex
getAlternateIPs_nolast == [lastGoodIP |-> NoIP, ipList |-> alternateIPs]
getAlternateIPs == [lastGoodIP |-> lastGoodAlternateIP, ipList |-> alternateIPs]

\* doRequest up to the first attempt; for the api host
\* lastIP, ips := a.getAlternateIPs()
doRequestStart(call, host) ==
    /\ rpc = "idle"
    /\ apiCalls < MaxApiCalls
    /\ apiCalls' = apiCalls + 1
    /\ CASE doRequest(host) = "api" ->
              /\ rq' = [NoRq EXCEPT !.call = call,
                                    !.lastIP = getAlternateIPs.lastGoodIP,
                                    !.ips = getAlternateIPs.ipList,
                                    !.allMiss = TRUE,
                                    !.buf = Marshal(call)]
              /\ rpc' = IF getAlternateIPs.lastGoodIP # NoIP THEN "A_last"
                                                              ELSE "A_dns"
         [] doRequest(host) = "update" ->
              /\ rq' = [NoRq EXCEPT !.call = call, !.allMiss = TRUE,
                                    !.buf = Marshal(call)]
              /\ rpc' = "U_do"
         [] OTHER ->
              /\ rq' = [NoRq EXCEPT !.call = call,
                                    !.err = [msg |-> "unknown host type",
                                             cause |-> ""]]
              /\ rpc' = "done"
    /\ UNCHANGED <<alternateIPs, lastGoodAlternateIP, APIIvpnHashes, IPs,
                   wgVars, dialVars, conv, sn>>

\* DoRequestByAlias(apiAlias)
DoRequestByAlias(apiAlias) ==
    IF apiAlias \in DOMAIN APIAliases
       THEN doRequestStart(apiAlias, APIAliases[apiAlias].host)
       ELSE /\ rpc = "idle"
            /\ apiCalls < MaxApiCalls
            /\ apiCalls' = apiCalls + 1
            /\ rq' = [NoRq EXCEPT !.call = apiAlias,
                                  !.err = [msg |-> "Unexpected request alias",
                                           cause |-> ""]]
            /\ rpc' = "done"
            /\ UNCHANGED <<alternateIPs, lastGoodAlternateIP, APIIvpnHashes,
                           IPs, wgVars, dialVars, conv, sn>>

\* DownloadServersList(): a.request("", _serversPath, ...)
DownloadServersList == doRequestStart("servers", "")

\* SessionNew(): a.requestRaw("", _sessionNewPath, "POST", ..., request, 0)
SessionNewCall == doRequestStart("session-new", "")

\* what client.Do leaves in bodyBuffer, the reader every request of the call
\* is made with: all of it when no connection was obtained, nothing when the
\* exchange completed, and any rest of it when the exchange failed on a
\* connection
BodyLeft(transCfg, srv, buf) ==
    LET connected ==
          IF transCfg.DialTLS
             THEN LET c == makeDialer(transCfg.certHashes, srv)
                  IN  c.conn = Live /\ c.err = NoErr
             ELSE srv.handshake = "ok"
    IN  IF ~connected THEN {buf}
        ELSE IF srv.http THEN {<<>>}
        ELSE {SubSeq(buf, k + 1, Len(buf)) : k \in 0..Len(buf)}

\* one attempt: the locals after client.Do for target answered by srv
Tried(target, transCfg, srv, left) ==
    [rq EXCEPT !.tried = Append(@, target),
               !.allMiss = @ /\ PinMiss(transCfg.certHashes, srv),
               !.buf = left]

\* access API by last good IP (if defined)
AttemptLastGood ==
    /\ rpc = "A_last"
    /\ \E srv \in ApiServers :
         \E left \in BodyLeft(apiTransCfg, srv, rq.buf) :
         /\ Survives(apiTransCfg, srv)
         /\ LET target == String(rq.lastIP) IN
            IF clientDo(apiTransCfg, srv)
               THEN /\ rq' = [Tried(target, apiTransCfg, srv, left) EXCEPT !.resp = target]
                    /\ rpc' = "done"
               ELSE /\ rq' = Tried(target, apiTransCfg, srv, left)
                    /\ rpc' = "A_dns"
    /\ UNCHANGED <<alternateIPs, lastGoodAlternateIP, APIIvpnHashes, IPs,
                   apiCalls, wgVars, dialVars, conv, sn>>

\* try to access API server by host DNS
AttemptDNS ==
    /\ rpc = "A_dns"
    /\ \E srv \in ApiServers :
         \E left \in BodyLeft(apiTransCfg, srv, rq.buf) :
         /\ Survives(apiTransCfg, srv)
         /\ IF clientDo(apiTransCfg, srv)
               THEN /\ rq' = [Tried(_apiHost, apiTransCfg, srv, left) EXCEPT !.resp = _apiHost]
                    /\ rpc' = "A_clear"
               ELSE /\ rq' = [Tried(_apiHost, apiTransCfg, srv, left) EXCEPT
                                 !.firstErr = _apiHost, !.i = 1]
                    /\ rpc' = "A_alt"
    /\ UNCHANGED <<alternateIPs, lastGoodAlternateIP, APIIvpnHashes, IPs,
                   apiCalls, wgVars, dialVars, conv, sn>>

\* what the DNS-name success stores as last good IP
ClearedIP_kept == lastGoodAlternateIP
ClearedIP == NoIP

\* a.saveLastGoodAlternateIP(nil); return firstResp, firstErr
ClearLastGood ==
    /\ rpc = "A_clear"
    /\ lastGoodAlternateIP' = ClearedIP
    /\ rq' = [rq EXCEPT !.wrote = @ \/ lastGoodAlternateIP' # lastGoodAlternateIP]
    /\ rpc' = "done"
    /\ UNCHANGED <<alternateIPs, APIIvpnHashes, IPs, apiCalls, wgVars,
                   dialVars, conv, sn>>

\* the error of a request all of whose attempts failed
AllFailed_last(r) == [msg |-> "Unable to access IVPN API server",
                      cause |-> r.tried[Len(r.tried)]]
AllFailed(r) == [msg |-> "Unable to access IVPN API server",
                 cause |-> r.firstErr]

\* try to access API server by alternate IP: for i, ip := range ips
AttemptAlternate ==
    /\ rpc = "A_alt"
    /\ IF rq.i > Len(rq.ips)
          THEN /\ rq' = [rq EXCEPT !.err = AllFailed(rq)]
               /\ rpc' = "done"
          ELSE \E srv \in ApiServers :
               \E left \in BodyLeft(apiTransCfg, srv, rq.buf) :
                 /\ Survives(apiTransCfg, srv)
                 /\ LET target == String(rq.ips[rq.i]) IN
                    IF clientDo(apiTransCfg, srv)
                       THEN /\ rq' = [Tried(target, apiTransCfg, srv, left) EXCEPT
                                         !.resp = target]
                            /\ rpc' = "A_save"
                       ELSE /\ rq' = [Tried(target, apiTransCfg, srv, left) EXCEPT
                                         !.i = @ + 1]
                            /\ rpc' = "A_alt"
    /\ UNCHANGED <<alternateIPs, lastGoodAlternateIP, APIIvpnHashes, IPs,
                   apiCalls, wgVars, dialVars, conv, sn>>

\* a.saveLastGoodAlternateIP(ip); return resp, err
SaveLastGood ==
    /\ rpc = "A_save"
    /\ lastGoodAlternateIP' = rq.ips[rq.i]
    /\ rq' = [rq EXCEPT !.wrote = @ \/ lastGoodAlternateIP' # lastGoodAlternateIP]
    /\ rpc' = "done"
    /\ UNCHANGED <<alternateIPs, APIIvpnHashes, IPs, apiCalls, wgVars,
                   dialVars, conv, sn>>

\* the targets doRequestUpdateHost tries
UpdateTargets_failover == <<_updateHost, String(lastGoodAlternateIP)>>
UpdateTargets == <<_updateHost>>

\* doRequestUpdateHost: one client.Do
AttemptUpdate ==
    /\ rpc = "U_do"
    /\ \E srv \in ApiServers :
         \E left \in BodyLeft(updateTransCfg, srv, rq.buf) :
         LET r == [Tried(_updateHost, updateTransCfg, srv, left) EXCEPT
                      !.tried = rq.tried \o UpdateTargets] IN
         IF clientDo(updateTransCfg, srv)
            THEN rq' = [r EXCEPT !.resp = _updateHost]
            ELSE rq' = [r EXCEPT !.err = [msg |-> "Unable to access IVPN repo server",
                                          cause |-> _updateHost]]
    /\ rpc' = "done"
    /\ UNCHANGED <<alternateIPs, lastGoodAlternateIP, APIIvpnHashes, IPs,
                   apiCalls, wgVars, dialVars, conv, sn>>

\* the loop of SetAlternateIPs over IPs
RECURSIVE setLoop(_, _, _)
setLoop(rest, ipList, isLastIPExists) ==
    IF rest = <<>>
       THEN [ipList |-> ipList, isLastIPExists |-> isLastIPExists]
       ELSE LET ip == ParseIP(Head(rest)) IN
            IF ip = NoIP
               THEN setLoop(Tail(rest), ipList, isLastIPExists)
               ELSE setLoop(Tail(rest), Append(ipList, ip),
                            isLastIPExists \/ Equal(ip, lastGoodAlternateIP))

\* what SetAlternateIPs leaves in lastGoodAlternateIP
LastGoodAfterSet_kept(isLastIPExists) == lastGoodAlternateIP
LastGoodAfterSet(isLastIPExists) ==
    IF isLastIPExists = FALSE THEN NoIP ELSE lastGoodAlternateIP

\* SetAlternateIPs(IPs), under a.mutex
SetAlternateIPs(list) ==
    LET r == setLoop(list, <<>>, FALSE) IN
    /\ lastGoodAlternateIP' = LastGoodAfterSet(r.isLastIPExists)
    /\ alternateIPs' = r.ipList
    /\ IPs' = list

\* DownloadServersList after a.request returned nil:
\* a.SetAlternateIPs(servers.Config.API.IPAddresses)
DownloadedSet(list) ==
    /\ rpc = "done"
    /\ rq.call = "servers"
    /\ rq.err = NoError
    /\ SetAlternateIPs(list)
    /\ rpc' = "dl_ret"
    /\ UNCHANGED <<APIIvpnHashes, rq, apiCalls, wgVars, dialVars, conv, sn>>

\* the call returns to its caller (for DownloadServersList also when the
\* body could not be read or deserialized: no list is installed then)
ApiReturn ==
    /\ rpc \in {"done", "dl_ret"}
    /\ rpc' = "idle"
    /\ rq' = NoRq
    /\ UNCHANGED <<alternateIPs, lastGoodAlternateIP, APIIvpnHashes, IPs,
                   apiCalls, wgVars, dialVars, conv, sn>>

\* SetAlternateIPs called by another thread (the service installing a list,
\* the end of a server-list download of another thread)
SetAlternateIPsCall(list) ==
    /\ apiCalls < MaxApiCalls
    /\ apiCalls' = apiCalls + 1
    /\ SetAlternateIPs(list)
    /\ UNCHANGED <<APIIvpnHashes, rpc, rq, wgVars, dialVars, conv, sn>>

ApiNext ==
    \/ \E a \in Aliases : DoRequestByAlias(a)
    \/ DownloadServersList
    \/ SessionNewCall
    \/ AttemptLastGood
    \/ AttemptDNS
    \/ ClearLastGood
    \/ AttemptAlternate
    \/ SaveLastGood
    \/ AttemptUpdate
    \/ \E list \in IPLists : DownloadedSet(list)
    \/ ApiReturn
    \/ \E list \in AddressLists : SetAlternateIPsCall(list)

ApiSpec == ApiInit /\ [][ApiNext]_vars

\* ================================================================ state model
\* a State is converted to its name and the name is parsed, or a status line
\* is parsed: a word with characters of the cut set around it
StateInit ==
    /\ AdapterInit
    /\ ApiIdle
    /\ APIIvpnHashes = <<"h1">>
    /\ DialIdle
    /\ SessionIdle
    /\ \/ \E s \in (State("DISCONNECTED") - 1)..(State("EXITING") + 1) :
            conv = [state |-> "given", s |-> s, stateStr |-> <<>>,
                    ret |-> NoParse]
       \/ \E lead \in Pads, trail \in Pads :
          \E w \in {StateNames[k] : k \in 1..Len(StateNames)}
                     \cup {"GET_CONFIG", "ASSIGN_IP", "ADD_ROUTES",
                           "connected", "RESOLVE"} :
            conv = [state |-> "read", s |-> -2,
                    stateStr |-> lead \o <<w>> \o trail, ret |-> NoParse]

\* s.String()
CallString ==
    /\ conv.state = "given"
    /\ conv' = [conv EXCEPT !.state = "read", !.stateStr = StateString(conv.s)]
    /\ UNCHANGED <<wgVars, apiVars, dialVars, sn>>

\* ParseState(stateStr)
CallParseState ==
    /\ conv.state = "read"
    /\ conv' = [conv EXCEPT !.state = "parsed", !.ret = ParseState(conv.stateStr)]
    /\ UNCHANGED <<wgVars, apiVars, dialVars, sn>>

StateNext == CallString \/ CallParseState

StateSpec == StateInit /\ [][StateNext]_vars

\* ================================================================ SessionNew
\* a SessionNew call, for every result of its request. The request itself,
\* with its failover over the alternate IPs, is the api-host request of
\* ApiSpec
SessionInit ==
    /\ AdapterInit
    /\ ApiIdle
    /\ APIIvpnHashes = <<"h1">>
    /\ DialIdle
    /\ ConvIdle
    /\ \E raw \in RawResults :
         sn = [state |-> "called", raw |-> raw, ret |-> NoSessionRet]

IsSuccess_any(status) == TRUE
IsSuccess(status) == status = CodeSuccess

\* the returns of SessionNew after requestRaw returned data
SessionNewDecode(data) ==
    LET apiErr == [Status |-> data.Status, Message |-> data.Message]
        failed == [NoSessionRet EXCEPT !.rawResponse = <<data>>,
                                       !.err = Errorf("failed to deserialize API response")]
    IN  IF ~data.envelope THEN failed
        ELSE IF IsSuccess(apiErr.Status)
                THEN IF ~data.success THEN failed
                     ELSE [successResp |-> "successResp", errorLimitResp |-> Nil,
                           apiErr |-> apiErr, rawResponse |-> <<data>>,
                           err |-> NoAPIError]
        ELSE IF apiErr.Status = CodeSessionsLimitReached
                THEN IF ~data.limit THEN failed
                     ELSE [successResp |-> Nil,
                           errorLimitResp |-> "errorLimitResp",
                           apiErr |-> apiErr, rawResponse |-> <<data>>,
                           err |-> CreateAPIError(apiErr.Status, apiErr.Message)]
        ELSE [successResp |-> Nil, errorLimitResp |-> Nil, apiErr |-> apiErr,
              rawResponse |-> <<data>>,
              err |-> CreateAPIError(apiErr.Status, apiErr.Message)]

\* data, err := a.requestRaw(...); if err != nil: return
SessionNewRequest ==
    /\ sn.state = "called"
    /\ IF sn.raw.err # NoAPIError
          THEN sn' = [sn EXCEPT !.state = "returned",
                                !.ret = [NoSessionRet EXCEPT !.err = sn.raw.err]]
          ELSE sn' = [sn EXCEPT !.state = "received"]
    /\ UNCHANGED <<wgVars, apiVars, dialVars, conv>>

\* the rest of SessionNew
SessionNewReturn ==
    /\ sn.state = "received"
    /\ sn' = [sn EXCEPT !.state = "returned",
                        !.ret = SessionNewDecode(sn.raw.data)]
    /\ UNCHANGED <<wgVars, apiVars, dialVars, conv>>

SessionNext == SessionNewRequest \/ SessionNewReturn

SessionSpec == SessionInit /\ [][SessionNext]_vars

\* ================================================================ claims
Count(log, x) == Cardinality({i \in 1..Len(log) : log[i] = x})

ConnectReturns == pc[Conn] = "c_exit" /\ pc'[Conn] = "idle"

InSection(t) == pc[t] \in {"U_body", "I_write", "I_exec", "I_defer"}

\* C1: a disconnect() called while connect() is in progress makes connect()
\* return eventually.
DisconnectEndsConnect ==
    (isDisconnectRequested /\ pc[Conn] # "idle") ~> (pc[Conn] = "idle")

\* C2: when connect() returns after having passed the disconnect-requested
\* check, pauseRequireChan is nil, the manual DNS was removed, the scratch
\* configuration file does not exist and the service is not installed.
CleanOnReturn ==
    [][ConnectReturns =>
          /\ pauseRequireChan' = NilChan
          /\ dnsManual' = NilIP
          /\ configFile' = NoFile
          /\ service' = "absent"]_vars

\* C3: once disconnect() was called the flag stays set, and every later
\* connect() is refused at once: no install, no uninstall, no state sent and
\* no pauseRequireChan made.
SingleUse ==
    [][/\ isDisconnectRequested => isDisconnectRequested'
       /\ (isDisconnectRequested /\ connects' # connects) =>
             /\ connResult' = "refused"
             /\ UNCHANGED <<pc, stack, res, locals, world, internals,
                            chanBuf, nextChan, emitted>>]_vars

SingleUseWitness == connResult = "refused" /\ isDisconnectRequested

\* C4: every control call (pause, resume, disconnect, setManualDNS,
\* resetManualDNS) eventually returns.
ControlCallsReturn ==
    \A t \in Ctl : (pc[t] # "idle") ~> (pc[t] = "idle")

\* C5: the last state a connect() sent before it returns is DISCONNECTED or
\* EXITING.
TerminalStateSent ==
    [][ConnectReturns =>
          /\ emitted' # <<>>
          /\ emitted'[Len(emitted')] \in {"DISCONNECTED", "EXITING"}]_vars

\* C6 as claimed: a connect() that reached the supervision loop sent
\* CONNECTED exactly once.
ConnectedExactlyOnce ==
    pauseRequireChan # NilChan => Count(emitted, "CONNECTED") = 1

\* C6: a connect() that reached the supervision loop sent CONNECTED once for
\* the bring-up and once more for every reinstall (by resume or by restart)
\* that returned without error.
ConnectedOncePerInstall ==
    (pauseRequireChan # NilChan /\ ConnSite \notin {"P_inret", "R_inret"}) =>
        Count(emitted, "CONNECTED") = 1 + nReinstalled

ConnectedAgainWitness ==
    /\ pc[Conn] = "L_poll"
    /\ nReinstalled = 1
    /\ Count(emitted, "CONNECTED") = 2

PausesCollapse == quiet => nPauseUninst <= 1

PauseDrainedWitness ==
    /\ quiet
    /\ pc[Conn] = "P_wait"
    /\ toDo = pause
    /\ nPauseUninst = 1

\* C9: a pause() called while the tunnel is not connected (no connect in
\* progress, bring-up, restart or reinstall in progress) is a no-op: the
\* supervision loop never pauses the tunnel because of it.
OffStatePauseIsNoOp ==
    [][(/\ pc[Conn] = "L_select"
        /\ pc'[Conn] # "L_select"
        /\ chanBuf[pauseRequireChan] # <<>>
        /\ Head(chanBuf[pauseRequireChan]).op = pause) =>
          ~Head(chanBuf[pauseRequireChan]).off]_vars

\* C10: no two threads are inside the install or uninstall section at the
\* same time; the global init mutex is held by the thread inside the section
\* and by nobody once that thread has left it.
InitLockExclusion ==
    /\ \A t1, t2 \in Threads : (InSection(t1) /\ InSection(t2)) => t1 = t2
    /\ \A t \in Threads : InSection(t) <=> mutex = t

LockContendedWitness ==
    \E t1, t2 \in Threads :
        /\ InSection(t1)
        /\ pc[t2] \in {"U_lock", "I_lock"}

\* ------------------------------------------------- API client claims
\* the call that is returning was routed to this function of doRequest
Routed(kind) ==
    /\ rq.call \in ApiCallKinds
    /\ doRequest(IF rq.call \in DOMAIN APIAliases THEN APIAliases[rq.call].host
                 ELSE IF rq.call \in {"servers", "session-new"} THEN ""
                 ELSE "?") = kind
    /\ rq.call # "no-such-alias"

\* the strings of IPStrings that are addresses
IsAddress(ipStr) == ipStr \in {"203.0.113.7", "203.0.113.8", "::ffff:203.0.113.8"}

\* the addresses of a list of strings, in their order
ValidAddresses(list) ==
    LET valid == SelectSeq(list, IsAddress) IN
    [k \in 1..Len(valid) |-> ParseIP(valid[k])]

\* the targets of a list of addresses, in their order
Targets(list) == [k \in 1..Len(list) |-> String(list[k])]

\* C11: in every reachable state, also while SetAlternateIPs runs
\* concurrently with an api-host request in flight, lastGoodAlternateIP is
\* nil or a member of alternateIPs.
LastGoodIsAlternate ==
    lastGoodAlternateIP = NoIP \/ lastGoodAlternateIP \in Range(alternateIPs)

\* C12: the step that ends an api-host request that succeeded through
\* alternate IP a after its DNS-name attempt failed stores a as last good IP;
\* the stored value stays until a list is installed or a request's own DNS
\* or alternate success writes it; a request that starts while a is stored
\* makes its first attempt to a, and if that attempt succeeds the request
\* ends with no other attempt made and the last good IP untouched.
LastGoodTriedFirst ==
    /\ [][(rpc = "A_save" /\ rpc' = "done") =>
            /\ lastGoodAlternateIP' = ParseIP(rq.resp)
            /\ rq.resp = rq.tried[Len(rq.tried)]
            /\ rq.firstErr = _apiHost
            /\ _apiHost \in Range(rq.tried)]_vars
    /\ [][(lastGoodAlternateIP' # lastGoodAlternateIP) =>
            \/ rpc \in {"A_clear", "A_save"}
            \/ SetAlternateIPs(IPs')]_vars
    /\ [][(rpc = "idle" /\ rpc' # "idle" /\ rq'.call \in {"geo-lookup", "servers"}
             /\ lastGoodAlternateIP # NoIP) =>
            (rpc' = "A_last" /\ rq'.lastIP = lastGoodAlternateIP)]_vars
    /\ [][(rpc = "A_last" /\ rpc' # "A_last") =>
            /\ rq'.tried = <<String(rq.lastIP)>>
            /\ rq'.resp # NoResp =>
                 /\ rpc' = "done"
                 /\ rq'.resp = String(rq.lastIP)
                 /\ rq'.err = NoError
                 /\ lastGoodAlternateIP' = lastGoodAlternateIP]_vars

LastGoodFirstWitness ==
    /\ rpc = "done"
    /\ rq.lastIP = IP7
    /\ rq.tried = <<"203.0.113.7">>
    /\ rq.resp = "203.0.113.7"
    /\ lastGoodAlternateIP = IP7

\* C13: an api-host request whose DNS-name attempt succeeded, with no last
\* good IP or after the attempt to it failed, returns the response of the
\* DNS-name attempt and no error, has tried no alternate IP, and leaves the
\* last good IP nil.
DnsSuccessClears ==
    (rpc = "done" /\ rq.resp = _apiHost) =>
        /\ rq.err = NoError
        /\ rq.tried = (IF rq.lastIP # NoIP THEN <<String(rq.lastIP)>> ELSE <<>>)
                         \o <<_apiHost>>
        /\ lastGoodAlternateIP = NoIP

DnsSuccessWitness ==
    /\ rpc = "done"
    /\ rq.resp = _apiHost
    /\ rq.lastIP = IP7
    /\ rq.wrote
    /\ alternateIPs # <<>>

\* C14: an api-host request all of whose attempts failed returns no response
\* and an error that wraps the failure of the DNS-name attempt; it has tried
\* the last good IP (when there was one), the DNS name and then every
\* alternate IP in list order, and has written neither alternateIPs nor
\* lastGoodAlternateIP.
AllFailReturnsF0 ==
    (rpc = "done" /\ Routed("api") /\ rq.resp = NoResp) =>
        /\ rq.err = [msg |-> "Unable to access IVPN API server",
                     cause |-> _apiHost]
        /\ rq.firstErr = _apiHost
        /\ rq.tried = (IF rq.lastIP # NoIP THEN <<String(rq.lastIP)>> ELSE <<>>)
                         \o <<_apiHost>> \o Targets(rq.ips)
        /\ ~rq.wrote

AllFailWitness ==
    /\ rpc = "done"
    /\ rq.err.msg = "Unable to access IVPN API server"
    /\ rq.lastIP = IP8
    /\ rq.ips = <<IP7, IP8>>
    /\ Len(rq.tried) = 4
    /\ lastGoodAlternateIP = IP8

\* C15: a request addressed to the update host makes one attempt, to the
\* update host by name, and the step that makes it changes neither
\* alternateIPs nor lastGoodAlternateIP, whether it succeeds or fails.
UpdateHostNoFailover ==
    /\ []((rpc = "done" /\ Routed("update")) =>
            /\ rq.tried = <<_updateHost>>
            /\ ~rq.wrote
            /\ rq.resp \in {NoResp, _updateHost}
            /\ (rq.resp = NoResp) <=> (rq.err # NoError))
    /\ [][(rpc = "U_do" /\ rpc' # "U_do") =>
            (rpc' = "done" /\ UNCHANGED <<alternateIPs, lastGoodAlternateIP>>)]_vars
    /\ [][(rpc = "idle" /\ rpc' # "idle" /\ rq'.call = "updateInfo_Linux") =>
            rpc' = "U_do"]_vars

UpdateFailedWitness ==
    /\ rpc = "done"
    /\ rq.call = "updateInfo_Linux"
    /\ rq.err # NoError
    /\ lastGoodAlternateIP # NoIP
    /\ Len(alternateIPs) = 2

\* C16: SetAlternateIPs(L) leaves in alternateIPs the addresses of L in their
\* order, the strings that are no address dropped, and keeps
\* lastGoodAlternateIP if and only if it is one of them, else makes it nil;
\* so does an empty L, which empties the list.
SetInstallsValid ==
    /\ [](alternateIPs = ValidAddresses(IPs))
    /\ [][SetAlternateIPs(IPs') =>
            /\ alternateIPs' = ValidAddresses(IPs')
            /\ lastGoodAlternateIP' =
                 IF lastGoodAlternateIP \in Range(ValidAddresses(IPs'))
                    THEN lastGoodAlternateIP ELSE NoIP
            /\ (IPs' = <<>>) =>
                 (alternateIPs' = <<>> /\ lastGoodAlternateIP' = NoIP)]_vars

SetKeepsWitness ==
    /\ rpc = "dl_ret"
    /\ IPs = <<"bogus", "::ffff:203.0.113.8">>
    /\ alternateIPs = <<IP8>>
    /\ lastGoodAlternateIP = IP8

\* C17 as claimed: a request every attempt of which met a chain with no
\* pinned SPKI hash returns an error and no response and has not written
\* the last good IP.
PinMissFails ==
    (rpc = "done" /\ rq.tried # <<>> /\ rq.allMiss) =>
        /\ rq.err # NoError
        /\ rq.resp = NoResp
        /\ ~rq.wrote

\* C17: with a pin list that is not empty, a request every attempt of which
\* met a chain with no pinned SPKI hash returns an error and no response and
\* has not written the last good IP.
PinMissFailsWithPins ==
    (APIIvpnHashes # <<>> /\ rpc = "done" /\ rq.tried # <<>> /\ rq.allMiss) =>
        /\ rq.err # NoError
        /\ rq.resp = NoResp
        /\ ~rq.wrote

PinMissWitness ==
    /\ APIIvpnHashes # <<>>
    /\ rpc = "done"
    /\ Routed("api")
    /\ rq.allMiss
    /\ Len(rq.tried) = 4
    /\ rq.err # NoError

\* ------------------------------------------------- dialer claims
\* a peer certificate of the chain has its SPKI hash in the pin list
ChainPinned(certHashes, chain) ==
    \E k \in 1..Len(chain) :
        /\ chain[k] \in HashedKeys
        /\ certBase64hash(chain[k]) \in Range(certHashes)

Returned == dial.state = "returned"

\* C18: a dial returns a live connection if and only if the handshake
\* succeeded and a peer certificate's SPKI hash is in the pin list; in every
\* other case it returns no connection and a non-nil error.
DialAcceptsIffPinned ==
    Returned =>
        /\ (dial.ret.conn = Live) <=>
              (/\ dial.srv.handshake = "ok"
               /\ ChainPinned(dial.certHashes, dial.srv.PeerCertificates))
        /\ (dial.ret.conn # Live) => (dial.ret.err # NoErr)

\* C19: a panic during the dial or the certificate check is recovered and
\* the dialer returns a non-nil error; the dialer never returns a nil
\* connection together with a nil error.
PanicBecomesError ==
    Returned =>
        /\ dial.ret.panicked => dial.ret.err # NoErr
        /\ ~(dial.ret.conn = NoConn /\ dial.ret.err = NoErr)

\* C20: when the handshake succeeded and no peer certificate matches the pin
\* list, no open connection remains when the error is returned.
PinMissCloses ==
    (/\ Returned
     /\ dial.srv.handshake = "ok"
     /\ ~ChainPinned(dial.certHashes, dial.srv.PeerCertificates)
     /\ ~dial.ret.panicked) =>
        (dial.ret.err # NoErr /\ ~dial.ret.open)

\* ------------------------------------------------- state model claims
\* C21: for every state of the enumeration other than DISCONNECTED, parsing
\* the name String() gives it succeeds and returns the state.
StateRoundTrip ==
    (conv.state = "parsed" /\ conv.s \in State("CONNECTING")..State("EXITING")) =>
        conv.ret = [state |-> conv.s, err |-> NoErr]

\* ------------------------------------------------- SessionNew claims
SessionReturned == sn.state = "returned"

EnvelopeOf(data) == [Status |-> data.Status, Message |-> data.Message]

\* the error is the API error made from the envelope of the response
IsAPIErrorOf(e, data) == e = CreateAPIError(data.Status, data.Message)

\* what C22 says of a response whose envelope decodes
TypedByStatus(data, ret) ==
    /\ (ret.successResp # Nil /\ ret.err = NoAPIError)
          <=> data.Status = CodeSuccess
    /\ (ret.errorLimitResp # Nil /\ IsAPIErrorOf(ret.err, data))
          <=> data.Status = CodeSessionsLimitReached
    /\ data.Status \notin {CodeSuccess, CodeSessionsLimitReached} =>
          /\ ret.successResp = Nil
          /\ ret.errorLimitResp = Nil
          /\ ret.apiErr = EnvelopeOf(data)
          /\ IsAPIErrorOf(ret.err, data)
    /\ ~(ret.successResp # Nil /\ ret.errorLimitResp # Nil)

\* C22 as claimed: whenever the envelope of the response decodes, the typed
\* success body comes with a nil error exactly for status success, the typed
\* limit body with the API error of the envelope exactly for status
\* session-limit-reached, any other status gives no typed body and the API
\* error with the envelope; a failed request gives no envelope.
SessionNewTyping ==
    SessionReturned =>
        /\ (sn.raw.err = NoAPIError /\ sn.raw.data.envelope) =>
              TypedByStatus(sn.raw.data, sn.ret)
        /\ sn.raw.err # NoAPIError =>
              (sn.ret.apiErr = NoSessionRet.apiErr /\ sn.ret.err = sn.raw.err)

\* the typed response the status of the body selects decodes too
TypedDecodes(data) ==
    /\ data.Status = CodeSuccess => data.success
    /\ data.Status = CodeSessionsLimitReached => data.limit

\* C22: the same for a response whose envelope and whose typed body (of the
\* kind its status selects) both decode; when the typed body does not decode
\* SessionNew returns no typed body, no envelope and a deserialization
\* error.
SessionNewTypingDecoded ==
    SessionReturned =>
        /\ (sn.raw.err = NoAPIError /\ sn.raw.data.envelope) =>
              IF TypedDecodes(sn.raw.data)
                 THEN TypedByStatus(sn.raw.data, sn.ret)
                 ELSE sn.ret = [NoSessionRet EXCEPT
                                   !.rawResponse = <<sn.raw.data>>,
                                   !.err = Errorf("failed to deserialize API response")]
        /\ sn.raw.err # NoAPIError =>
              (sn.ret.apiErr = NoSessionRet.apiErr /\ sn.ret.err = sn.raw.err)

SessionLimitWitness ==
    /\ SessionReturned
    /\ sn.ret.errorLimitResp # Nil
    /\ sn.ret.successResp = Nil
    /\ sn.ret.apiErr = [Status |-> CodeSessionsLimitReached,
                        Message |-> "Too many sessions"]
    /\ sn.ret.err = CreateAPIError(CodeSessionsLimitReached, "Too many sessions")

\* ------------------------------------------------- adapter scenarios
\* the connect thread, at label l of connect(), goes on to another statement
ConnLeaves(l) == pc[Conn] = l /\ pc'[Conn] # l

PauseBuffered ==
    /\ chanBuf[pauseRequireChan] # <<>>
    /\ Head(chanBuf[pauseRequireChan]).op = pause

\* C23: the loop that receives a pause marks the adapter paused and calls
\* the uninstall; while connect() then waits, isPaused is true, the service
\* is not installed and connect() has not returned; it leaves the wait only
\* by receiving a message that is no pause; on a resume (no disconnect
\* requested) it calls the install, and when the install returns nil
\* CONNECTED was sent again and isPaused becomes false; between the pause and
\* the end of the resume connect() returns only with the error of a failed
\* uninstall or install.
PauseThenResume ==
    /\ [][(ConnLeaves("L_select") /\ PauseBuffered) =>
            (isPaused' /\ pc'[Conn] = "U_lock" /\ Head(stack'[Conn]) = "P_unret")]_vars
    /\ [](pc[Conn] \in {"P_wait", "P_chk"} =>
            (isPaused /\ service = "absent" /\ connResult = "running"))
    /\ [][ConnLeaves("P_wait") =>
            (~PauseBuffered /\ pc'[Conn] = "P_chk" /\ toDo' = resume)]_vars
    /\ [][(ConnLeaves("P_chk") /\ ~isDisconnectRequested) =>
            (pc'[Conn] = "I_lock" /\ Head(stack'[Conn]) = "P_inret")]_vars
    /\ [][(ConnLeaves("P_inret") /\ res = "ok") =>
            /\ emitted # <<>>
            /\ emitted[Len(emitted)] = "CONNECTED"
            /\ Count(emitted, "CONNECTED") = 2 + nReinstalled
            /\ ~isPaused'
            /\ pc'[Conn] = "L_restart"]_vars
    /\ [][(ConnSite \in {"P_unret", "P_wait", "P_chk", "P_inret"}
             /\ pc'[Conn] = "c_exit") =>
            (pc[Conn] \in {"P_unret", "P_inret"} /\ res = "err" /\ res' = "err")]_vars

ResumedWitness ==
    /\ pc[Conn] = "L_restart"
    /\ nPauseUninst = 1
    /\ nReinstalled = 1
    /\ dnsDebt = 0
    /\ ~isPaused
    /\ service = "running"
    /\ emitted = <<"CONNECTED", "CONNECTED">>

\* the "DNS = " line a configuration generated now carries
LatestDNS == IF manualDNS # NilIP THEN manualDNS ELSE HostLocalIP

LastEmitted(x) == emitted # <<>> /\ emitted[Len(emitted)] = x

RestartTakenUp ==
    (isRestartRequired /\ ConnSite \in {"L_poll", "L_select", "L_restart"}) ~>
        \/ ~isRestartRequired
        \/ pc[Conn] \in {"idle", "P_wait", "DI_send"}

\* the connect thread arrives at label l
ConnArrives(l) == pc[Conn] # l /\ pc'[Conn] = l

\* C25: when the installService of the bring-up fails (the configuration
\* cannot be written, the installer fails or times out, the service stops or
\* does not start in time), nothing is sent to stateChan by it, its cleanup
\* has run uninstallService before it returns, and connect() then returns an
\* error without having sent CONNECTED, made pauseRequireChan or entered the
\* loop.
BringUpFailure ==
    /\ [][(ConnSite = "c_inst_ret" /\ ConnLeaves("I_exec") /\ res' = "err") =>
            (emitted' = emitted /\ service' # "running")]_vars
    /\ [][(ConnArrives("c_inst_ret") /\ res' = "err") =>
            pc[Conn] = "I_cl_ret"]_vars
    /\ [][ConnArrives("I_cl_ret") => pc[Conn] = "U_body"]_vars
    /\ [][(ConnLeaves("c_inst_ret") /\ res = "err") =>
            /\ pc'[Conn] = "c_exit"
            /\ res' = "err"
            /\ Count(emitted, "CONNECTED") = 0
            /\ pauseRequireChan = NilChan
            /\ UNCHANGED <<pauseRequireChan, nextChan, emitted>>]_vars
    /\ [][(ConnLeaves("c_exit") /\ res = "err") =>
            (pc'[Conn] = "idle" /\ connResult' = "err"
             /\ pauseRequireChan' = NilChan)]_vars

BringUpFailedWitness ==
    /\ pc[Conn] = "c_inst_ret"
    /\ res = "err"
    /\ connects = 1
    /\ emitted = <<>>
    /\ nextChan = 0
    /\ service = "absent"
    /\ configFile = NoFile

\* C26: pauseRequireChan is nil all through the bring-up; when a disconnect
\* was requested by the time the installService of the bring-up has returned,
\* connect() makes no pauseRequireChan and does not enter the loop: it
\* returns the error of the install (whose cleanup has uninstalled), or calls
\* uninstallService and returns its result; the loop is entered only when no
\* disconnect was requested.
DisconnectInBringUp ==
    /\ [](ConnSite \in {"c_di_ret", "c_inst_ret", "c_dq_ret"} =>
            pauseRequireChan = NilChan)
    /\ [][(ConnLeaves("c_inst_ret") /\ isDisconnectRequested) =>
            /\ IF res = "err"
                  THEN pc'[Conn] = "c_exit"
                  ELSE pc'[Conn] = "U_lock" /\ Head(stack'[Conn]) = "c_dq_ret"
            /\ UNCHANGED <<pauseRequireChan, nextChan, emitted>>]_vars
    /\ [][ConnArrives("c_dq_ret") => pc[Conn] = "U_body"]_vars
    /\ [][ConnLeaves("c_dq_ret") =>
            (pc'[Conn] = "c_exit" /\ res' = res
             /\ UNCHANGED <<pauseRequireChan, nextChan, emitted>>)]_vars
    /\ [][ConnArrives("c_mk") => ~isDisconnectRequested]_vars

BringUpDisconnectedWitness ==
    /\ pc[Conn] = "c_dq_ret"
    /\ isDisconnectRequested
    /\ res = "ok"
    /\ service = "absent"
    /\ nextChan = 0
    /\ emitted = <<"CONNECTED">>

\* connect() has left the paused wait with a disconnect requested: isPaused is
\* still set (only a resume's install or the return clears it) while the
\* thread is back in the loop
LeftPauseDisconnected ==
    /\ isPaused
    /\ isDisconnectRequested
    /\ ConnSite \in {"L_restart", "L_poll", "L_select", "R_unret", "R_inret"}

\* C27: once connect() has left the paused wait because a disconnect was
\* requested, it sends no further state and calls no install.
PausedDisconnectEnds ==
    [][LeftPauseDisconnected =>
          (emitted' = emitted /\ pc'[Conn] # "I_lock")]_vars

\* C28: the restart branch returns no error from connect(): after a restart
\* whose uninstall or install returned an error the loop goes on to its next
\* poll, and that poll sees the service stopped or absent, so that connect()
\* leaves the loop and returns nil.
FailedRestartEndsConnect ==
    /\ [][(ConnSite \in {"R_unret", "R_inret"} /\ pc[Conn] = ConnSite
             /\ res = "err" /\ pc'[Conn] # pc[Conn]) =>
            (pc'[Conn] = "L_poll" /\ restartFailed')]_vars
    /\ [][(ConnLeaves("L_poll") /\ restartFailed) =>
            (pc'[Conn] = "c_exit" /\ res' = "ok")]_vars

\* a setManualDNS / resetManualDNS call of another thread takes its step t -> l
DnsStep(l) == \E t \in Ctl : pc[t] = "D_chk" /\ pc'[t] = l

\* the parts of the DNS calls' effect that do not depend on what
\* isServiceRunning() answers: a call with the stored value changes nothing, a
\* call with another value stores it and nothing else, the query changes
\* nothing, and the only change after it is isRestartRequired = true
DnsFrame ==
    /\ [][(calls' # calls /\ sameDnsCalled' /\ pc' = pc) =>
            UNCHANGED <<internals, world, emitted, chanBuf>>]_vars
    /\ [][(dnsDebt' = dnsDebt + 1) =>
            /\ manualDNS' # manualDNS
            /\ \E t \in Ctl : pc[t] = "idle" /\ pc'[t] = "D_chk"
            /\ UNCHANGED <<isRestartRequired, pauseRequireChan,
                           isDisconnectRequested, isPaused, world, emitted,
                           chanBuf>>]_vars
    /\ [][(DnsStep("idle") \/ DnsStep("D_set")) =>
            UNCHANGED <<internals, world, emitted, chanBuf>>]_vars
    /\ [][(\E t \in Ctl : pc[t] = "D_set" /\ pc'[t] # "D_set") =>
            /\ isRestartRequired'
            /\ \E t \in Ctl : pc'[t] = "idle"
            /\ UNCHANGED <<manualDNS, pauseRequireChan, isDisconnectRequested,
                           isPaused, world, emitted, chanBuf>>]_vars

\* C29: a DNS call with the stored value changes nothing; a call with another
\* value stores it, and then requests a restart exactly when the service is
\* running at its query: with the service not running only the stored value
\* has changed, with the service running isRestartRequired becomes true.
DnsCallEffect ==
    /\ DnsFrame
    /\ [][DnsStep("idle") => service # "running"]_vars
    /\ [][DnsStep("D_set") => service = "running"]_vars

\* C29 (as the code has it): a DNS call with the stored value changes
\* nothing; a call with another value stores it and then requests a restart
\* only if the service is running at its query; with the service not running,
\* or when the query of the service manager fails, the call ends with only
\* the stored value changed.
DnsCallEffectQueried ==
    /\ DnsFrame
    /\ [][DnsStep("D_set") => service = "running"]_vars
    /\ [][(\E t \in Ctl : pc[t] = "D_chk" /\ pc'[t] # "D_chk") =>
            (DnsStep("idle") \/ DnsStep("D_set"))]_vars

\* a DNS call has stored a new value with the service running and has
\* requested the restart
DnsRestartRequestedWitness ==
    /\ \E t \in Ctl : pc[t] = "idle"
    /\ isRestartRequired
    /\ manualDNS \in DnsAddrs
    /\ service = "running"
    /\ dnsDebt = 1

\* connect() is between its residual uninstall and its install: back from
\* disconnectInternal, or waiting for the lock of installService
BetweenUninstallAndInstall ==
    \/ pc[Conn] = "c_di_ret"
    \/ pc[Conn] = "I_lock" /\ ConnSite = "c_inst_ret"

\* C30: between the residual uninstall of a bring-up and its install no other
\* thread is inside an install or an uninstall.
BringUpOneSection ==
    BetweenUninstallAndInstall => \A t \in Ctl : ~InSection(t)

\* connect() goes on after a reinstall that returned no error
ReinstallDone(site) ==
    /\ pc[Conn] = site
    /\ res = "ok"
    /\ pc'[Conn] # site

\* C31: isPaused is false whenever no connect() is in progress, and is false
\* once a reinstall, by a resume or by a restart, has completed.
PausedOnlyUntilReinstall ==
    /\ [](pc[Conn] = "idle" => ~isPaused)
    /\ [][ReinstallDone("P_inret") => ~isPaused']_vars
    /\ [][ReinstallDone("R_inret") => ~isPaused']_vars

\* connect() sends RECONNECTING from its restart branch
SendsReconnecting ==
    /\ pc[Conn] = "L_restart"
    /\ emitted' = Append(emitted, "RECONNECTING")

\* C32: connect() sends RECONNECTING only for a change of the manual DNS
\* made after this connect()'s own CONNECTED: a restart requested for an
\* earlier change causes no RECONNECTING in a later connect().
RestartOnlyForOwnChange ==
    [][SendsReconnecting => dnsFresh]_vars

\* C33: the connect thread's own send into pauseRequireChan, made by the
\* failure cleanup of installService, is never blocked by a message already
\* in the buffer, and the cleanup runs without the global init lock.
CleanupSendCompletes ==
    /\ pc[Conn] \in {"DI_read", "DI_send"} => mutex # Conn
    /\ pc[Conn] = "DI_send" => CanSend(roCh[Conn])

\* an attempt of the call in progress is made: client.Do(req) with a request
\* whose body is the reader bodyBuffer
AttemptMade == Len(rq'.tried) > Len(rq.tried)

\* C34: every attempt of a call is made with the complete body: what is left
\* in bodyBuffer when the request is made is the JSON encoding of the
\* request object.
SameBodyEveryAttempt ==
    [][AttemptMade => rq.buf = Marshal(rq.call)]_vars
====
